---- MODULE Spec2Model ----
(***************************************************************************)
(* Model of src/server.rs: a two-player drop-board (6x7, four in a row)    *)
(* session server.  One GameRoom behind a tokio Mutex, an acceptor loop    *)
(* (main) that seats the first two connections, and one handle_client task *)
(* per seated connection.                                                  *)
(***************************************************************************)
EXTENDS Integers, Sequences, FiniteSets, TLC

(***************************************************************************)
(* Program constants.                                                      *)
(***************************************************************************)
ROWS == 6
COLS == 7
RUN == 4
SYMBOL_X == 1
SYMBOL_O == -1

Symbols == {SYMBOL_X, SYMBOL_O}
RowIdx == 0 .. (ROWS - 1)
ColIdx == 0 .. (COLS - 1)

(***************************************************************************)
(* Bounds of the model.                                                    *)
(***************************************************************************)
\* connections that ever reach the listener
MaxConns == 3
\* lines a client of a game may have in flight (sent, not yet read)
MaxQueue == 1
\* lines in flight on all connections together, when the text is arbitrary
MaxInFlight == 1
\* pieces on the board after which no further move is served
MaxMoves == 7
\* the same, while the clients send arbitrary text and disconnect
MaxTextMoves == 1
\* longest straight segment laid on a board given to check_winner
MaxSeg == 4
\* pieces on the board after which no further move is served, while the two
\* writes of update_game_state are separate steps
MaxTornMoves == 2
\* moves served in an end game, after the moves of its opening
MaxEndMoves == 2
\* pieces on the board after which no further move is served, under fair
\* scheduling
MaxFairMoves == 1

(***************************************************************************)
(* Text a client can send.  A line is the sequence of its characters; the  *)
(* handler receives it with the terminating newline (read_line keeps it).  *)
(***************************************************************************)
Digits == <<"0", "1", "2", "3", "4", "5", "6", "7", "8", "9">>
Whitespace == {" ", "\n", "\t", "\r"}

\* the lines of a game: two columns of the board and a column off it
GameLines == { <<"0">>, <<"1">>, <<"7">> }

\* arbitrary text
TextLines ==
    { <<"0">>, <<" ", "1", " ">>, <<"+", "1">>,    \* a column of the board
      <<"1", "0">>,                                \* a column off the board
      <<"a", "b", "c">>, <<"-", "1">>,             \* one token, no usize
      <<>>,                                        \* no token
      <<"1", " ", "2">> }                          \* two tokens

\* str::split_whitespace (it also covers trim): the maximal runs of
\* non-whitespace characters of s from position i on; cur is the run so far.
RECURSIVE SplitFrom(_, _, _)
SplitFrom(s, i, cur) ==
    IF i > Len(s)
    THEN IF cur = <<>> THEN <<>> ELSE <<cur>>
    ELSE IF s[i] \in Whitespace
         THEN IF cur = <<>>
              THEN SplitFrom(s, i + 1, <<>>)
              ELSE <<cur>> \o SplitFrom(s, i + 1, <<>>)
         ELSE SplitFrom(s, i + 1, Append(cur, s[i]))

split_whitespace(s) == SplitFrom(s, 1, <<>>)

IsDigit(ch) == \E i \in 1 .. 10 : Digits[i] = ch
DigitVal(ch) == (CHOOSE i \in 1 .. 10 : Digits[i] = ch) - 1

RECURSIVE DigitsValue(_, _)
DigitsValue(tok, acc) ==
    IF tok = <<>> THEN acc
    ELSE DigitsValue(Tail(tok), acc * 10 + DigitVal(Head(tok)))

\* str::parse::<usize>: an optional leading "+", then one or more decimal
\* digits.  (Tokens of Lines are too short to overflow a usize.)
ParseUsizeNoPlus(tok) ==
    IF tok # <<>> /\ \A i \in 1 .. Len(tok) : IsDigit(tok[i])
    THEN [ok |-> TRUE, val |-> DigitsValue(tok, 0)]
    ELSE [ok |-> FALSE, val |-> 0]

\* faulty variant: every token is taken for a number
ParseUsizeLenient(tok) ==
    IF tok = <<>> THEN [ok |-> TRUE, val |-> 0]
    ELSE [ok |-> TRUE,
          val |-> IF IsDigit(tok[1]) THEN DigitVal(tok[1]) ELSE 0]

parse_usize(tok) ==
    IF Len(tok) > 1 /\ tok[1] = "+"
    THEN ParseUsizeNoPlus(Tail(tok))
    ELSE ParseUsizeNoPlus(tok)

(***************************************************************************)
(* Board Model.                                                            *)
(***************************************************************************)
EmptyBoard == [r \in RowIdx |-> [c \in ColIdx |-> 0]]

NewGameRoom ==
    [ game_state   |-> [board |-> EmptyBoard, current_turn |-> SYMBOL_X],
      game_started |-> FALSE,
      players      |-> <<>> ]

\* faulty variant: the top cell of the column is not looked at
IsValidMoveNoTopCheck(game_state, player_move) ==
    player_move.col < COLS

is_valid_move(game_state, player_move) ==
    /\ player_move.col < COLS
    /\ game_state.board[0][player_move.col] = 0

\* faulty variant: the search stops at row 1
RECURSIVE FindRowStopsAtOne(_, _, _)
FindRowStopsAtOne(board, col, row) ==
    IF row > 1 /\ board[row][col] # 0
    THEN FindRowStopsAtOne(board, col, row - 1)
    ELSE row

\* faulty variant: no search, the piece stays in the top row
FindRowTop(board, col, row) == 0

\* the while loop of update_game_state, entered with row = 5
RECURSIVE FindRow(_, _, _)
FindRow(board, col, row) ==
    IF row > 0 /\ board[row][col] # 0
    THEN FindRow(board, col, row - 1)
    ELSE row

PieceCount(board, s) ==
    Cardinality({rc \in RowIdx \X ColIdx : board[rc[1]][rc[2]] = s})

NumPieces(board) == PieceCount(board, SYMBOL_X) + PieceCount(board, SYMBOL_O)

\* faulty variant: the turn is not alternated
UpdateNoFlip(room, player_move) ==
    IF ~is_valid_move(room.game_state, player_move)
    THEN [ok |-> FALSE, room |-> room]
    ELSE LET gs  == room.game_state
             row == FindRow(gs.board, player_move.col, ROWS - 1)
         IN [ok |-> TRUE,
             room |-> [room EXCEPT
                 !.game_state.board[row][player_move.col] = gs.current_turn]]

\* GameRoom::update_game_state: Err leaves the room as it was
update_game_state(room, player_move) ==
    IF ~is_valid_move(room.game_state, player_move)
    THEN [ok |-> FALSE, room |-> room]
    ELSE LET gs  == room.game_state
             row == FindRow(gs.board, player_move.col, ROWS - 1)
         IN [ok |-> TRUE,
             room |-> [room EXCEPT
                 !.game_state.board[row][player_move.col] = gs.current_turn,
                 !.game_state.current_turn = -gs.current_turn]]

\* the four scans of check_winner, in the order of the source
WinHorizontal(board, s) ==
    \E row \in 0 .. 5 : \E col \in 0 .. 3 :
        /\ board[row][col] = s
        /\ board[row][col + 1] = s
        /\ board[row][col + 2] = s
        /\ board[row][col + 3] = s

WinVertical(board, s) ==
    \E col \in 0 .. 6 : \E row \in 0 .. 2 :
        /\ board[row][col] = s
        /\ board[row + 1][col] = s
        /\ board[row + 2][col] = s
        /\ board[row + 3][col] = s

WinDiagDown(board, s) ==
    \E row \in 0 .. 2 : \E col \in 0 .. 3 :
        /\ board[row][col] = s
        /\ board[row + 1][col + 1] = s
        /\ board[row + 2][col + 2] = s
        /\ board[row + 3][col + 3] = s

WinDiagUp(board, s) ==
    \E row \in 3 .. 5 : \E col \in 0 .. 3 :
        /\ board[row][col] = s
        /\ board[row - 1][col + 1] = s
        /\ board[row - 2][col + 2] = s
        /\ board[row - 3][col + 3] = s

\* faulty variant: the last scan is missing
CheckWinnerNoDiagUp(game_state, player_symbol) ==
    \/ WinHorizontal(game_state.board, player_symbol)
    \/ WinVertical(game_state.board, player_symbol)
    \/ WinDiagDown(game_state.board, player_symbol)

check_winner(game_state, player_symbol) ==
    \/ WinHorizontal(game_state.board, player_symbol)
    \/ WinVertical(game_state.board, player_symbol)
    \/ WinDiagDown(game_state.board, player_symbol)
    \/ WinDiagUp(game_state.board, player_symbol)

(***************************************************************************)
(* State.                                                                  *)
(***************************************************************************)
VARIABLES
    game_room,   \* the GameRoom behind the Mutex
    lock,        \* holder of the Mutex: 0 (free) or the symbol of a handler
    main_pc,     \* acceptor: "accept" (in listener.accept) or "lock"
    accepted,    \* connections accepted so far; the last one is main's stream
    hpc,         \* per symbol, where its handle_client task is
    stream,      \* per symbol, the connection its handler serves (0: none)
    inbuf,       \* per symbol, lines sent by the client and not yet read
    conn,        \* per symbol, the client's end: "open", "eof" or "err"
    out          \* per connection, the last message written to it

vars == <<game_room, lock, main_pc, accepted, hpc, stream, inbuf, conn, out>>

Conns == 1 .. MaxConns
Messages == {"none", "board", "invalid_move", "bad_column", "bad_format",
             "win", "full"}

board == game_room.game_state.board
current_turn == game_room.game_state.current_turn
players == game_room.players

InFlight == Len(inbuf[SYMBOL_X]) + Len(inbuf[SYMBOL_O])

TypeOK ==
    /\ board \in [RowIdx -> [ColIdx -> {0, 1, -1}]]
    /\ current_turn \in Symbols
    /\ game_room.game_started \in BOOLEAN
    /\ lock \in {0, 1, -1}
    /\ main_pc \in {"accept", "lock"}
    /\ accepted \in 0 .. MaxConns
    /\ hpc \in [Symbols ->
                 {"unspawned", "loop", "read", "flip", "check", "done"}]
    /\ stream \in [Symbols -> 0 .. MaxConns]
    /\ \A p \in Symbols : \A i \in 1 .. Len(inbuf[p]) :
          inbuf[p][i] \in [text : GameLines \cup TextLines, turn : Symbols]
    /\ conn \in [Symbols -> {"open", "eof", "err"}]
    /\ out \in [Conns -> Messages]

Init ==
    /\ game_room = NewGameRoom
    /\ lock = 0
    /\ main_pc = "accept"
    /\ accepted = 0
    /\ hpc = [p \in Symbols |-> "unspawned"]
    /\ stream = [p \in Symbols |-> 0]
    /\ inbuf = [p \in Symbols |-> <<>>]
    /\ conn = [p \in Symbols |-> "open"]
    /\ out = [c \in Conns |-> "none"]

(***************************************************************************)
(* Connection Acceptor (main).                                             *)
(***************************************************************************)
\* listener.accept() returns the next connection
Accept(cap) ==
    /\ main_pc = "accept"
    /\ accepted < cap
    /\ accepted' = accepted + 1
    /\ main_pc' = "lock"
    /\ UNCHANGED <<game_room, lock, hpc, stream, inbuf, conn, out>>

\* faulty variant: a third player is seated
SeatNoLimit ==
    /\ main_pc = "lock"
    /\ lock = 0
    /\ Len(players) < 3
    /\ LET player_symbol == IF players = <<>> THEN SYMBOL_X ELSE SYMBOL_O
       IN /\ game_room' = [game_room EXCEPT !.players =
                 Append(@, [symbol |-> player_symbol, address |-> accepted])]
          /\ hpc' = [hpc EXCEPT ![player_symbol] = "loop"]
          /\ stream' = [stream EXCEPT ![player_symbol] = accepted]
    /\ main_pc' = "accept"
    /\ UNCHANGED <<lock, accepted, inbuf, conn, out>>

\* lock, players.len() < 2: push the Player, drop the lock, spawn the handler
Seat ==
    /\ main_pc = "lock"
    /\ lock = 0
    /\ Len(players) < 2
    /\ LET player_symbol == IF players = <<>> THEN SYMBOL_X ELSE SYMBOL_O
       IN /\ game_room' = [game_room EXCEPT !.players =
                 Append(@, [symbol |-> player_symbol, address |-> accepted])]
          /\ hpc' = [hpc EXCEPT ![player_symbol] = "loop"]
          /\ stream' = [stream EXCEPT ![player_symbol] = accepted]
    /\ main_pc' = "accept"
    /\ UNCHANGED <<lock, accepted, inbuf, conn, out>>

\* lock, players.len() >= 2: write the notice; the guard drops at the end of
\* the iteration
RoomFull ==
    /\ main_pc = "lock"
    /\ lock = 0
    /\ ~(Len(players) < 2)
    /\ out' = [out EXCEPT ![accepted] = "full"]
    /\ main_pc' = "accept"
    /\ UNCHANGED <<game_room, lock, accepted, hpc, stream, inbuf, conn>>

(***************************************************************************)
(* Clients.                                                                *)
(***************************************************************************)
\* a seated client sends one line; turn remembers the turn marker at the
\* time of sending
Transmit(p, line) ==
    /\ stream[p] # 0
    /\ conn[p] = "open"
    /\ inbuf' = [inbuf EXCEPT ![p] =
           Append(@, [text |-> line, turn |-> current_turn])]
    /\ UNCHANGED <<game_room, lock, main_pc, accepted, hpc, stream, conn, out>>

\* the client of a game: at most MaxQueue of its lines are unread
Send(p, line) ==
    /\ Len(inbuf[p]) < MaxQueue
    /\ Transmit(p, line)

\* a client sending arbitrary text: at most MaxInFlight lines are unread
SendText(p, line) ==
    /\ InFlight < MaxInFlight
    /\ Transmit(p, line)

\* the client closes its socket: reads return Ok(0) once the buffer drains
Close(p) ==
    /\ stream[p] # 0
    /\ conn[p] = "open"
    /\ conn' = [conn EXCEPT ![p] = "eof"]
    /\ UNCHANGED <<game_room, lock, main_pc, accepted, hpc, stream, inbuf, out>>

\* the connection breaks: reads return Err; writes fail as well, and the
\* handler discards the result of every write (let _ = writer.write_all)
Break(p) ==
    /\ stream[p] # 0
    /\ conn[p] = "open"
    /\ conn' = [conn EXCEPT ![p] = "err"]
    /\ UNCHANGED <<game_room, lock, main_pc, accepted, hpc, stream, inbuf, out>>

(***************************************************************************)
(* Session Handler (handle_client), for the handler with symbol p.         *)
(***************************************************************************)
\* lock, snapshot, write it; not this handler's turn: drop the lock, continue
Poll(p) ==
    /\ hpc[p] = "loop"
    /\ lock = 0
    /\ current_turn # p
    /\ out' = [out EXCEPT ![stream[p]] = "board"]
    /\ UNCHANGED <<game_room, lock, main_pc, accepted, hpc, stream, inbuf, conn>>

\* faulty variant: the turn is not compared with the handler's symbol
TakeTurnAnyTurn(p) ==
    /\ hpc[p] = "loop"
    /\ lock = 0
    /\ lock' = p
    /\ hpc' = [hpc EXCEPT ![p] = "read"]
    /\ out' = [out EXCEPT ![stream[p]] = "board"]
    /\ UNCHANGED <<game_room, main_pc, accepted, stream, inbuf, conn>>

\* lock, snapshot, write it; this handler's turn: go on to read_line with the
\* lock held
TakeTurn(p) ==
    /\ hpc[p] = "loop"
    /\ lock = 0
    /\ current_turn = p
    /\ lock' = p
    /\ hpc' = [hpc EXCEPT ![p] = "read"]
    /\ out' = [out EXCEPT ![stream[p]] = "board"]
    /\ UNCHANGED <<game_room, main_pc, accepted, stream, inbuf, conn>>

\* read_line returns Err: println, break (the guard is dropped on return)
ReadError(p) ==
    /\ hpc[p] = "read"
    /\ conn[p] = "err"
    /\ hpc' = [hpc EXCEPT ![p] = "done"]
    /\ lock' = 0
    /\ UNCHANGED <<game_room, main_pc, accepted, stream, inbuf, conn, out>>

\* read_line can return Ok: a buffered line, or 0 bytes at end of stream
CanRead(p) == inbuf[p] # <<>> \/ conn[p] = "eof"

\* the buffer read_line fills
Buffer(p) ==
    IF inbuf[p] # <<>> THEN Append(Head(inbuf[p]).text, "\n") ELSE <<>>

Consumed(p) ==
    IF inbuf[p] # <<>> THEN [inbuf EXCEPT ![p] = Tail(@)] ELSE inbuf

Parts(p) == split_whitespace(Buffer(p))

\* faulty variant: the handler breaks out of its loop after the message
RejectAndBreak(p, msg) ==
    /\ out' = [out EXCEPT ![stream[p]] = msg]
    /\ inbuf' = Consumed(p)
    /\ hpc' = [hpc EXCEPT ![p] = "done"]
    /\ lock' = 0
    /\ UNCHANGED <<game_room, main_pc, accepted, stream, conn>>

\* the iteration ends without a move: message written, guard dropped
Reject(p, msg) ==
    /\ out' = [out EXCEPT ![stream[p]] = msg]
    /\ inbuf' = Consumed(p)
    /\ hpc' = [hpc EXCEPT ![p] = "loop"]
    /\ lock' = 0
    /\ UNCHANGED <<game_room, main_pc, accepted, stream, conn>>

\* parts.len() != 1
BadFormat(p) ==
    /\ hpc[p] = "read"
    /\ CanRead(p)
    /\ Len(Parts(p)) # 1
    /\ Reject(p, "bad_format")

\* parts[0].parse::<usize>() is Err
BadColumn(p) ==
    /\ hpc[p] = "read"
    /\ CanRead(p)
    /\ Len(Parts(p)) = 1
    /\ ~parse_usize(Parts(p)[1]).ok
    /\ Reject(p, "bad_column")

\* faulty variant: a rejected move passes the turn to the other player
InvalidMovePassesTurn(p) ==
    /\ hpc[p] = "read"
    /\ CanRead(p)
    /\ Len(Parts(p)) = 1
    /\ parse_usize(Parts(p)[1]).ok
    /\ ~update_game_state(game_room, [col |-> parse_usize(Parts(p)[1]).val]).ok
    /\ game_room' = [game_room EXCEPT !.game_state.current_turn = -p]
    /\ out' = [out EXCEPT ![stream[p]] = "invalid_move"]
    /\ inbuf' = Consumed(p)
    /\ hpc' = [hpc EXCEPT ![p] = "loop"]
    /\ lock' = 0
    /\ UNCHANGED <<main_pc, accepted, stream, conn>>

\* update_game_state returns Err
InvalidMove(p) ==
    /\ hpc[p] = "read"
    /\ CanRead(p)
    /\ Len(Parts(p)) = 1
    /\ parse_usize(Parts(p)[1]).ok
    /\ ~update_game_state(game_room, [col |-> parse_usize(Parts(p)[1]).val]).ok
    /\ Reject(p, "invalid_move")

\* update_game_state returns Ok: the new board is written to the mover
ApplyMove(p, cap) ==
    /\ hpc[p] = "read"
    /\ CanRead(p)
    /\ Len(Parts(p)) = 1
    /\ parse_usize(Parts(p)[1]).ok
    /\ NumPieces(board) < cap
    /\ LET res == update_game_state(game_room,
                      [col |-> parse_usize(Parts(p)[1]).val])
       IN /\ res.ok
          /\ game_room' = res.room
    /\ out' = [out EXCEPT ![stream[p]] = "board"]
    /\ inbuf' = Consumed(p)
    /\ hpc' = [hpc EXCEPT ![p] = "check"]
    /\ UNCHANGED <<lock, main_pc, accepted, stream, conn>>

\* faulty variant: the winner is looked for under the other symbol
CheckWinOfOpponent(p) ==
    /\ hpc[p] = "check"
    /\ IF check_winner(game_room.game_state, -p)
       THEN /\ out' = [out EXCEPT ![stream[p]] = "win"]
            /\ hpc' = [hpc EXCEPT ![p] = "done"]
       ELSE /\ out' = out
            /\ hpc' = [hpc EXCEPT ![p] = "loop"]
    /\ lock' = 0
    /\ UNCHANGED <<game_room, main_pc, accepted, stream, inbuf, conn>>

\* check_winner for the mover: victory message and break, or loop again
CheckWin(p) ==
    /\ hpc[p] = "check"
    /\ IF check_winner(game_room.game_state, p)
       THEN /\ out' = [out EXCEPT ![stream[p]] = "win"]
            /\ hpc' = [hpc EXCEPT ![p] = "done"]
       ELSE /\ out' = out
            /\ hpc' = [hpc EXCEPT ![p] = "loop"]
    /\ lock' = 0
    /\ UNCHANGED <<game_room, main_pc, accepted, stream, inbuf, conn>>

\* a game: two clients connect, send the lines of a game and stay connected
Next ==
    \/ Accept(2)
    \/ Seat
    \/ \E p \in Symbols : \E line \in GameLines : Send(p, line)
    \/ \E p \in Symbols : Poll(p)
    \/ \E p \in Symbols : TakeTurn(p)
    \/ \E p \in Symbols : InvalidMove(p)
    \/ \E p \in Symbols : ApplyMove(p, MaxMoves)
    \/ \E p \in Symbols : CheckWin(p)

Spec == Init /\ [][Next]_vars

\* up to MaxConns clients connect; the seated ones send arbitrary text, close
\* and break their connections
NextText ==
    \/ Accept(MaxConns)
    \/ Seat
    \/ RoomFull
    \/ \E p \in Symbols : \E line \in TextLines : SendText(p, line)
    \/ \E p \in Symbols : Close(p)
    \/ \E p \in Symbols : Break(p)
    \/ \E p \in Symbols : Poll(p)
    \/ \E p \in Symbols : TakeTurn(p)
    \/ \E p \in Symbols : ReadError(p)
    \/ \E p \in Symbols : BadFormat(p)
    \/ \E p \in Symbols : BadColumn(p)
    \/ \E p \in Symbols : InvalidMove(p)
    \/ \E p \in Symbols : ApplyMove(p, MaxTextMoves)
    \/ \E p \in Symbols : CheckWin(p)

SpecText == Init /\ [][NextText]_vars

(***************************************************************************)
(* check_winner on its own: the handler of s has just placed a piece and   *)
(* holds the lock; the board is any board of CheckBoards.                  *)
(***************************************************************************)
Dirs == {<<0, 1>>, <<1, 0>>, <<1, 1>>, <<-1, 1>>}
Cells == RowIdx \X ColIdx

\* the cells of the board on the straight segment of len cells from rc in
\* direction d
Segment(rc, d, len) ==
    {<<rc[1] + i * d[1], rc[2] + i * d[2]>> : i \in 0 .. (len - 1)} \cap Cells

\* a segment of s on an empty board, with one cell overwritten by v
SegmentBoard(seg, s, spoil, v) ==
    [r \in RowIdx |-> [c \in ColIdx |->
        IF <<r, c>> = spoil THEN v
        ELSE IF <<r, c>> \in seg THEN s ELSE 0]]

InitCheck ==
    \E s \in Symbols : \E rc \in Cells : \E d \in Dirs :
    \E len \in (RUN - 1) .. MaxSeg : \E spoil \in Cells : \E v \in {0, 1, -1} :
        /\ game_room =
              [ game_state   |->
                    [ board |-> SegmentBoard(Segment(rc, d, len), s, spoil, v),
                      current_turn |-> -s ],
                game_started |-> FALSE,
                players      |-> << [symbol |-> SYMBOL_X, address |-> 1],
                                    [symbol |-> SYMBOL_O, address |-> 2] >> ]
        /\ lock = s
        /\ main_pc = "accept"
        /\ accepted = 2
        /\ hpc = [p \in Symbols |-> IF p = s THEN "check" ELSE "loop"]
        /\ stream = [p \in Symbols |-> IF p = SYMBOL_X THEN 1 ELSE 2]
        /\ inbuf = [p \in Symbols |-> <<>>]
        /\ conn = [p \in Symbols |-> "open"]
        /\ out = [c \in Conns |-> IF c <= 2 THEN "board" ELSE "none"]

NextCheck == \E p \in Symbols : CheckWin(p)

SpecCheck == InitCheck /\ [][NextCheck]_vars

(***************************************************************************)
(* The end of a game: both players are seated and have made the moves of   *)
(* EndOpening (three pieces each, in a column of their own; nobody has     *)
(* won); the clients then send moves and other text, and their connections *)
(* may break.                                                              *)
(***************************************************************************)
EndOpening == <<0, 1, 0, 1, 0, 1>>

\* the room after update_game_state has accepted the moves cols, in order
RECURSIVE Played(_, _)
Played(room, cols) ==
    IF cols = <<>>
    THEN room
    ELSE Played(update_game_state(room, [col |-> Head(cols)]).room, Tail(cols))

\* the lines of a game, a token that is no number and an empty line
EndLines == GameLines \cup { <<"a", "b", "c">>, <<>> }

InitEnd ==
    /\ game_room =
          Played([NewGameRoom EXCEPT !.players =
                      << [symbol |-> SYMBOL_X, address |-> 1],
                         [symbol |-> SYMBOL_O, address |-> 2] >>],
                 EndOpening)
    /\ lock = 0
    /\ main_pc = "accept"
    /\ accepted = 2
    /\ hpc = [p \in Symbols |-> "loop"]
    /\ stream = [p \in Symbols |-> IF p = SYMBOL_X THEN 1 ELSE 2]
    /\ inbuf = [p \in Symbols |-> <<>>]
    /\ conn = [p \in Symbols |-> "open"]
    /\ out = [c \in Conns |-> IF c <= 2 THEN "board" ELSE "none"]

NextEnd ==
    \/ \E p \in Symbols : \E line \in EndLines : SendText(p, line)
    \/ \E p \in Symbols : Break(p)
    \/ \E p \in Symbols : Poll(p)
    \/ \E p \in Symbols : TakeTurn(p)
    \/ \E p \in Symbols : ReadError(p)
    \/ \E p \in Symbols : BadFormat(p)
    \/ \E p \in Symbols : BadColumn(p)
    \/ \E p \in Symbols : InvalidMove(p)
    \/ \E p \in Symbols : ApplyMove(p, Len(EndOpening) + MaxEndMoves)
    \/ \E p \in Symbols : CheckWin(p)

SpecEnd == InitEnd /\ [][NextEnd]_vars

(***************************************************************************)
(* update_game_state in two steps, one for each of its writes to the room: *)
(* between them the piece is on the board and the turn marker still names  *)
(* the mover.                                                              *)
(***************************************************************************)
\* faulty variant: the lock is released between the two writes
PlacePieceUnlocked(p, cap) ==
    /\ hpc[p] = "read"
    /\ CanRead(p)
    /\ Len(Parts(p)) = 1
    /\ parse_usize(Parts(p)[1]).ok
    /\ NumPieces(board) < cap
    /\ LET res == update_game_state(game_room,
                      [col |-> parse_usize(Parts(p)[1]).val])
       IN /\ res.ok
          /\ game_room' = [game_room EXCEPT
                 !.game_state.board = res.room.game_state.board]
    /\ inbuf' = Consumed(p)
    /\ hpc' = [hpc EXCEPT ![p] = "flip"]
    /\ lock' = 0
    /\ UNCHANGED <<main_pc, accepted, stream, conn, out>>

\* the move is valid: the piece is written into its cell
PlacePiece(p, cap) ==
    /\ hpc[p] = "read"
    /\ CanRead(p)
    /\ Len(Parts(p)) = 1
    /\ parse_usize(Parts(p)[1]).ok
    /\ NumPieces(board) < cap
    /\ LET res == update_game_state(game_room,
                      [col |-> parse_usize(Parts(p)[1]).val])
       IN /\ res.ok
          /\ game_room' = [game_room EXCEPT
                 !.game_state.board = res.room.game_state.board]
    /\ inbuf' = Consumed(p)
    /\ hpc' = [hpc EXCEPT ![p] = "flip"]
    /\ UNCHANGED <<lock, main_pc, accepted, stream, conn, out>>

\* the turn marker is negated, Ok is returned and the new board is written
\* to the mover
FlipTurn(p) ==
    /\ hpc[p] = "flip"
    /\ game_room' = [game_room EXCEPT
           !.game_state.current_turn = -game_room.game_state.current_turn]
    /\ out' = [out EXCEPT ![stream[p]] = "board"]
    /\ hpc' = [hpc EXCEPT ![p] = "check"]
    /\ UNCHANGED <<lock, main_pc, accepted, stream, inbuf, conn>>

NextTorn ==
    \/ Accept(2)
    \/ Seat
    \/ \E p \in Symbols : \E line \in GameLines : Send(p, line)
    \/ \E p \in Symbols : Poll(p)
    \/ \E p \in Symbols : TakeTurn(p)
    \/ \E p \in Symbols : InvalidMove(p)
    \/ \E p \in Symbols : PlacePiece(p, MaxTornMoves)
    \/ \E p \in Symbols : FlipTurn(p)
    \/ \E p \in Symbols : CheckWin(p)

SpecTorn == Init /\ [][NextTorn]_vars

(***************************************************************************)
(* Fair scheduling.  The tokio runtime runs every task that is ready, and  *)
(* the tokio Mutex hands the lock to its waiters in the order they asked:  *)
(* a handler that can take a step eventually takes one, and the acceptor   *)
(* gets the lock if it is released again and again.  Nothing is assumed of *)
(* the clients: connections arrive and lines are sent, or not.             *)
(***************************************************************************)
\* the acceptor's iteration for the connection it has accepted
AcceptorStep == Seat \/ RoomFull

\* any step of the handler with symbol p
HandlerStep(p) ==
    \/ Poll(p)
    \/ TakeTurn(p)
    \/ InvalidMove(p)
    \/ ApplyMove(p, MaxFairMoves)
    \/ CheckWin(p)

NextFair ==
    \/ Accept(MaxConns)
    \/ AcceptorStep
    \/ \E p \in Symbols : \E line \in GameLines : Send(p, line)
    \/ \E p \in Symbols : HandlerStep(p)

SpecFair ==
    /\ Init
    /\ [][NextFair]_vars
    /\ SF_vars(AcceptorStep)
    /\ \A p \in Symbols : WF_vars(HandlerStep(p))

(***************************************************************************)
(* Vocabulary of the properties.                                           *)
(***************************************************************************)
Other(p) == -p

\* a handler step that takes a line off its connection
ReadsLine(p) ==
    hpc[p] = "read" /\ inbuf[p] # <<>> /\ inbuf'[p] = Tail(inbuf[p])

\* an accepted move: a piece appears on the board
MoveAccepted == board' # board

\* the cell a step wrote, if it wrote exactly one
Written ==
    {rc \in RowIdx \X ColIdx : board'[rc[1]][rc[2]] # board[rc[1]][rc[2]]}

\* C1: the turn marker starts at symbol X (1), is always one of the two
\* symbols, changes to the other symbol in every step that places a piece
\* and changes in no other step (rejected move, malformed line, or any
\* other step).
C1_TurnMarker ==
    /\ current_turn = SYMBOL_X
    /\ [](current_turn \in Symbols)
    /\ [][ /\ MoveAccepted => current_turn' = -current_turn
           /\ ~MoveAccepted => current_turn' = current_turn
           /\ \A p \in Symbols :
                ReadsLine(p) /\ hpc'[p] = "loop" => current_turn' = current_turn
         ]_vars

\* both kinds of step have happened: the marker has gone to O and come back
\* with the second piece, and X has then had a move refused
C1_Witness ==
    /\ NumPieces(board) = 2
    /\ current_turn = SYMBOL_X
    /\ hpc[SYMBOL_X] = "loop"
    /\ out[stream[SYMBOL_X]] = "invalid_move"

\* the handler is past its turn check and has not ended its iteration
InTurn(p) == hpc[p] \in {"read", "check"}

\* C2: two handlers never apply a move for the same turn.  At most one
\* handler is between its turn check and the end of its iteration; every
\* piece is placed by the handler that holds the lock, while the turn marker
\* equals its symbol, and is that symbol; the marker then names the other
\* handler, so accepted moves alternate X, O, X, ..., the first one by X.
C2_OneMovePerTurn ==
    /\ [](~(InTurn(SYMBOL_X) /\ InTurn(SYMBOL_O)))
    /\ [](\A p \in Symbols : InTurn(p) => lock = p)
    /\ [][ MoveAccepted =>
             \E p \in Symbols :
                /\ InTurn(p) /\ lock = p /\ ~InTurn(Other(p))
                /\ hpc[p] = "read" /\ hpc'[p] = "check"
                /\ hpc'[Other(p)] = hpc[Other(p)]
                /\ current_turn = p
                /\ current_turn' = Other(p)
                /\ board = EmptyBoard => p = SYMBOL_X
                /\ \A rc \in Written :
                      board[rc[1]][rc[2]] = 0 /\ board'[rc[1]][rc[2]] = p
         ]_vars

\* both handlers have moved twice and O has just placed its second piece
C2_Witness ==
    /\ PieceCount(board, SYMBOL_X) = 2
    /\ PieceCount(board, SYMBOL_O) = 2
    /\ hpc[SYMBOL_O] = "check"

\* C3: a line a player submits while the turn marker names the other player
\* is rejected: the step that takes it off the connection places no piece
\* and leaves the handler in its loop.
C3_OutOfTurnRejected ==
    [][ \A p \in Symbols :
          ReadsLine(p) /\ Head(inbuf[p]).turn # p =>
              /\ board' = board
              /\ hpc'[p] = "loop"
      ]_vars

\* the row of column c a dropped piece must land in
LowestEmpty(b, c) ==
    CHOOSE r \in RowIdx :
        /\ b[r][c] = 0
        /\ \A r2 \in RowIdx : b[r2][c] = 0 => r2 <= r

\* the column a line of one numeric token names
ColumnOf(text) == parse_usize(split_whitespace(text)[1]).val

\* C4: an accepted move into column c writes the mover's symbol into the
\* lowest empty row of column c (row 0 when rows 1..5 are occupied) and
\* leaves every other cell as it was.
C4_LowestEmptyRow ==
    [][ \A p \in Symbols :
          ReadsLine(p) /\ MoveAccepted =>
              LET c == ColumnOf(Head(inbuf[p]).text)
              IN /\ c \in ColIdx
                 /\ \E r \in RowIdx : board[r][c] = 0
                 /\ board' = [board EXCEPT ![LowestEmpty(board, c)][c] = p]
      ]_vars

\* a piece has just been dropped into the top row of a column
C4_Witness ==
    \E p \in Symbols : \E c \in ColIdx :
        /\ hpc[p] = "check"
        /\ board[0][c] = p
        /\ \A r \in RowIdx : board[r][c] # 0

\* a line whose single token is a number that is no open column of b
NamesClosedColumn(text, b) ==
    /\ Len(split_whitespace(text)) = 1
    /\ parse_usize(split_whitespace(text)[1]).ok
    /\ \/ ColumnOf(text) \notin ColIdx
       \/ b[0][ColumnOf(text)] # 0

\* C5: a move into a column outside 0..6 or into a full column is rejected:
\* the room is unchanged, the rejection message goes to the submitter's
\* connection and to no other, the handler is back at the top of its loop
\* with the lock released and the turn still its own, and the other handler
\* is where it was.
C5_RejectedMove ==
    [][ \A p \in Symbols :
          ReadsLine(p) /\ NamesClosedColumn(Head(inbuf[p]).text, board) =>
              /\ game_room' = game_room
              /\ out' = [out EXCEPT ![stream[p]] = "invalid_move"]
              /\ hpc' = [hpc EXCEPT ![p] = "loop"]
              /\ lock' = 0
              /\ current_turn' = p
      ]_vars

\* a column is full and the player on turn has just been refused a move
C5_Witness ==
    /\ \E c \in ColIdx : \A r \in RowIdx : board[r][c] # 0
    /\ hpc[current_turn] = "loop"
    /\ out[stream[current_turn]] = "invalid_move"
    /\ lock = 0

\* four cells in a row, all s, in one of the four directions, on the board
HasRun(b, s) ==
    \E r \in RowIdx : \E c \in ColIdx :
        /\ b[r][c] = s
        /\ \E d \in Dirs :
              \A i \in 1 .. (RUN - 1) :
                  /\ r + i * d[1] \in RowIdx
                  /\ c + i * d[2] \in ColIdx
                  /\ b[r + i * d[1]][c + i * d[2]] = s

\* C6: check_winner(board, s) is true exactly when the board holds four
\* contiguous cells equal to s in a row, a column or either diagonal, for
\* each of the two symbols.
C6_CheckWinner ==
    \A s \in Symbols :
        check_winner(game_room.game_state, s) <=> HasRun(board, s)

\* O was declared the winner on a board whose only run of O rises to the
\* right
C6_Witness ==
    /\ hpc[SYMBOL_O] = "done"
    /\ out[stream[SYMBOL_O]] = "win"
    /\ WinDiagUp(board, SYMBOL_O)
    /\ ~WinHorizontal(board, SYMBOL_O)
    /\ ~WinVertical(board, SYMBOL_O)
    /\ ~WinDiagDown(board, SYMBOL_O)

\* C7: win detection follows every accepted move inside the same critical
\* section: the mover goes from the move to the check with the lock held,
\* nothing changes the room before the check, and the check ends the mover's
\* handler with the victory message exactly when the board holds a run of
\* four of the mover's symbol, and otherwise returns it to its loop.  A
\* handler that has ended stays ended.
C7_WinAfterMove ==
    /\ [](\A p \in Symbols : hpc[p] = "check" => lock = p /\ current_turn = -p)
    /\ [][ \A p \in Symbols :
            /\ MoveAccepted /\ hpc[p] = "read" => hpc'[p] = "check" /\ lock' = p
            /\ hpc[p] = "check" =>
                 /\ game_room' = game_room
                 /\ hpc'[p] # "check" =>
                      IF HasRun(board, p)
                      THEN /\ hpc'[p] = "done"
                           /\ out' = [out EXCEPT ![stream[p]] = "win"]
                           /\ lock' = 0
                      ELSE /\ hpc'[p] = "loop"
                           /\ out' = out
                           /\ lock' = 0
            /\ hpc[p] # "done" /\ hpc'[p] = "done" =>
                 hpc[p] = "check" /\ HasRun(board, p)
            /\ hpc[p] = "done" => hpc'[p] = "done"
         ]_vars

\* X has won with its fourth piece and its handler has ended; O, which has
\* moved three times without winning, is still in its loop
C7_Witness ==
    /\ hpc[SYMBOL_X] = "done"
    /\ out[stream[SYMBOL_X]] = "win"
    /\ HasRun(board, SYMBOL_X)
    /\ PieceCount(board, SYMBOL_O) = 3
    /\ hpc[SYMBOL_O] = "loop"

\* connection c has been through the acceptor's loop body
Handled(c) == c < accepted \/ (c = accepted /\ main_pc = "accept")

\* C8: the first connection is seated with symbol X (1) and the second with
\* symbol O (-1), each with a handler of its own on its stream; every later
\* connection gets the room-full notice, no seat and no handler.  The roster
\* never holds more than 2 players, their symbols differ, and an entry, once
\* appended, stays as it is; a handler, once spawned, keeps its stream.
C8_Seating ==
    /\ [] /\ Len(players) <= 2
          /\ \A i, j \in 1 .. Len(players) :
                i # j => players[i].symbol # players[j].symbol
          /\ Len(players) >= 1 =>
                players[1] = [symbol |-> SYMBOL_X, address |-> 1]
          /\ Len(players) >= 2 =>
                players[2] = [symbol |-> SYMBOL_O, address |-> 2]
          /\ \A p \in Symbols :
                /\ hpc[p] # "unspawned" <=> stream[p] # 0
                /\ stream[p] # 0 <=>
                      \E i \in 1 .. Len(players) :
                          players[i] = [symbol |-> p, address |-> stream[p]]
          /\ \A c \in Conns :
                Handled(c) =>
                    IF c <= 2
                    THEN /\ Len(players) >= c
                         /\ out[c] # "full"
                    ELSE /\ out[c] = "full"
                         /\ \A p \in Symbols : stream[p] # c
                         /\ \A i \in 1 .. Len(players) : players[i].address # c
    /\ [][ /\ Len(players') >= Len(players)
           /\ \A i \in 1 .. Len(players) : players'[i] = players[i]
           /\ \A p \in Symbols :
                /\ stream[p] # 0 => stream'[p] = stream[p]
                /\ hpc[p] # "unspawned" => hpc'[p] # "unspawned"
                /\ hpc[p] # "unspawned" /\ hpc'[p] # hpc[p] => main_pc' = main_pc
         ]_vars

\* two players are seated, both handlers run, and a third connection has
\* been sent the notice
C8_Witness ==
    /\ Len(players) = 2
    /\ \A p \in Symbols : hpc[p] # "unspawned"
    /\ accepted >= 3
    /\ Handled(3)
    /\ out[3] = "full"

\* the number of whitespace-separated tokens of a line
TokenCount(text) ==
    Cardinality({i \in 1 .. Len(text) :
        /\ text[i] \notin Whitespace
        /\ i = 1 \/ text[i - 1] \in Whitespace})

NotSpace(ch) == ch \notin Whitespace

\* a token that writes a non-negative integer: decimal digits, after an
\* optional plus sign
IsNonNegative(tok) ==
    LET ds == IF tok # <<>> /\ tok[1] = "+" THEN Tail(tok) ELSE tok
    IN ds # <<>> /\ \A i \in 1 .. Len(ds) : ds[i] \in {Digits[k] : k \in 1 .. 10}

Malformed(text) ==
    \/ TokenCount(text) # 1
    \/ ~IsNonNegative(SelectSeq(text, NotSpace))

\* C9: a line that has not exactly one token, or whose token is no
\* non-negative integer, gets a format message on the sender's connection
\* and nothing else: room unchanged (no turn consumed), the other
\* connections untouched, the handler back at the top of its loop with the
\* lock released.
C9_MalformedLine ==
    [][ \A p \in Symbols :
          ReadsLine(p) /\ Malformed(Head(inbuf[p]).text) =>
              /\ out'[stream[p]] \in {"bad_format", "bad_column"}
              /\ \A c \in Conns : c # stream[p] => out'[c] = out[c]
              /\ game_room' = game_room
              /\ hpc' = [hpc EXCEPT ![p] = "loop"]
              /\ lock' = 0
      ]_vars

\* a player on turn has just been told that its token is no column number
C9_Witness ==
    \E p \in Symbols :
        /\ hpc[p] = "loop"
        /\ current_turn = p
        /\ lock = 0
        /\ out[stream[p]] = "bad_column"

\* C10: when the read fails because the client has disconnected or the
\* connection has broken, the handler ends: its next step takes it to
\* "done", and it stays there.
C10_ReadFailureEndsHandler ==
    [][ \A p \in Symbols :
          /\ hpc[p] = "read" /\ inbuf[p] = <<>> /\ conn[p] # "open"
                /\ hpc'[p] # hpc[p]
             => hpc'[p] = "done"
          /\ hpc[p] = "done" => hpc'[p] = "done"
      ]_vars

\* the victory message has been written to p's connection and p's handler
\* has ended
Won(p) == hpc[p] = "done" /\ out[stream[p]] = "win"

\* C11: once a victory has been declared and the winner's handler has
\* ended, the board and the turn marker never change again, whatever the
\* remaining connection sends.
C11_FinishedGameIsFinal ==
    [][ (\E p \in Symbols : Won(p)) =>
            game_room.game_state' = game_room.game_state
      ]_vars

\* C12: a handler ends only from a read that fails or from the check of a
\* move of its own that completes a run of four.  A step that takes a line
\* and places no piece (rejected move, malformed line) returns it to its
\* loop, and no step from the top of the loop, where the handler only
\* writes, ends it, whether the connection is broken (the write fails) or
\* not.  The step that ends a handler leaves the room as it is and the other
\* handler where it is.
C12_HandlerTermination ==
    [][ \A p \in Symbols :
          /\ hpc[p] # "done" /\ hpc'[p] = "done" =>
                /\ \/ hpc[p] = "read" /\ conn[p] = "err" /\ inbuf' = inbuf
                   \/ hpc[p] = "check" /\ HasRun(board, p) /\ current_turn = -p
                /\ game_room' = game_room
                /\ hpc'[Other(p)] = hpc[Other(p)]
          /\ ReadsLine(p) /\ ~MoveAccepted => hpc'[p] = "loop"
          /\ hpc[p] = "loop" => hpc'[p] # "done"
      ]_vars

\* X has ended on its winning move; O, whose connection broke, has since
\* taken its turn and ended on the failed read
C12_Witness ==
    /\ Won(SYMBOL_X)
    /\ hpc[SYMBOL_O] = "done"
    /\ conn[SYMBOL_O] = "err"
    /\ out[stream[SYMBOL_O]] # "win"
    /\ ~HasRun(board, SYMBOL_O)

\* handler q is suspended in read_line with the lock held: nothing has
\* arrived on its connection
AwaitsInput(q) ==
    hpc[q] = "read" /\ lock = q /\ inbuf[q] = <<>> /\ conn[q] = "open"

\* C13: a handler waiting for its turn does not block: while it is at the
\* top of its loop and the turn is the other player's, its next iteration
\* (lock, snapshot, unlock) can run, so the lock is never held by a handler
\* that is itself waiting for its client to send a line.
C13_WaitingDoesNotBlock ==
    \A p \in Symbols :
        hpc[p] = "loop" /\ current_turn # p =>
            /\ ~AwaitsInput(Other(p))
            /\ lock = 0 => ENABLED Poll(p)

\* the pieces and the turn marker agree: as many X as O when X is to move,
\* one X more when O is to move
Parity ==
    PieceCount(board, SYMBOL_X) - PieceCount(board, SYMBOL_O) =
        IF current_turn = SYMBOL_X THEN 0 ELSE 1

\* C14: no snapshot observes a torn mutation.  Whenever the lock is free,
\* that is at every point where a handler or the acceptor can acquire it and
\* read the room, the number of X pieces minus the number of O pieces is 0
\* when the marker is X and 1 when it is O; the room is in between (piece
\* without flip) only while the mover is between the two writes of
\* update_game_state, with the lock held.
C14_NoTornSnapshot ==
    /\ lock = 0 => Parity
    /\ ~Parity => \E p \in Symbols : hpc[p] = "flip" /\ lock = p
    /\ \A p \in Symbols : hpc[p] = "flip" => lock = p /\ ~Parity

\* O is between the two writes of its move, the second of the game, while
\* X's handler is at the top of its loop, about to take the lock
C14_Witness ==
    /\ hpc[SYMBOL_O] = "flip"
    /\ NumPieces(board) = 2
    /\ current_turn = SYMBOL_O
    /\ hpc[SYMBOL_X] = "loop"

\* C15: frame of the room.  Board and turn marker change only in a step of
\* the handler whose symbol equals the turn marker, which holds the lock,
\* takes a line off its connection and places a piece; that step leaves the
\* roster alone.  Seating changes the roster only.  A snapshot (a step from
\* the top of the loop), a step that takes a line and returns to the loop
\* (rejected move, malformed line) and a room-full rejection leave the whole
\* room as it is.  Hence while no line of the player on turn is waiting,
\* board and turn marker stay as they are.
C15_Frame ==
    [][ /\ game_room.game_state' # game_room.game_state =>
              /\ \E p \in Symbols :
                    /\ current_turn = p
                    /\ lock = p
                    /\ hpc[p] = "read"
                    /\ ReadsLine(p)
                    /\ current_turn' = -p
              /\ MoveAccepted
              /\ players' = players
        /\ players' # players =>
              /\ game_room.game_state' = game_room.game_state
              /\ main_pc = "lock" /\ lock = 0
        /\ game_room.game_started' = game_room.game_started
        /\ main_pc = "lock" /\ out'[accepted] = "full" => game_room' = game_room
        /\ \A p \in Symbols :
              /\ hpc[p] = "loop" /\ (hpc'[p] # hpc[p] \/ out' # out) =>
                    game_room' = game_room
              /\ ReadsLine(p) /\ hpc'[p] = "loop" => game_room' = game_room
        /\ inbuf[current_turn] = <<>> =>
              game_room.game_state' = game_room.game_state
      ]_vars

\* X has moved, O has had a move rejected and a third connection has been
\* turned away: one piece is on the board and the turn is still O's
C15_Witness ==
    /\ NumPieces(board) = 1
    /\ current_turn = SYMBOL_O
    /\ hpc[SYMBOL_O] = "loop"
    /\ out[stream[SYMBOL_O]] = "invalid_move"
    /\ accepted >= 3
    /\ out[3] = "full"

\* connection c has a seat, or has been sent the room-full notice
Settled(c) ==
    \/ \E i \in 1 .. Len(players) : players[i].address = c
    \/ out[c] = "full"

\* C16: under fair scheduling of the acceptor and the handlers, and whatever
\* the clients do or do not send, every accepted connection is eventually
\* seated or sent the room-full notice.
C16_AcceptorLiveness ==
    \A c \in Conns : (accepted >= c) ~> Settled(c)

\* C17: at most one player is ever declared the winner: the victory message
\* has gone to at most one connection, and the board never holds a run of
\* four of each symbol.
C17_AtMostOneWinner ==
    /\ Cardinality({p \in Symbols : Won(p)}) <= 1
    /\ ~(HasRun(board, SYMBOL_X) /\ HasRun(board, SYMBOL_O))

\* C18: gravity.  Every column is filled from the bottom row (row 5) upward
\* without a gap: no occupied cell has an empty cell below it; and every
\* cell holds 0, 1 or -1.
C18_Gravity ==
    /\ \A r \in RowIdx : \A c \in ColIdx : board[r][c] \in {0, SYMBOL_X, SYMBOL_O}
    /\ \A c \in ColIdx : \A r \in 0 .. (ROWS - 2) :
          board[r][c] # 0 => board[r + 1][c] # 0

\* one column is full to the top row and another holds a single piece
C18_Witness ==
    \E c, d \in ColIdx :
        /\ \A r \in RowIdx : board[r][c] # 0
        /\ board[ROWS - 1][d] # 0
        /\ board[ROWS - 2][d] = 0

\* C19: no move is accepted before both players are seated: a piece is
\* placed only while the roster holds two players.
C19_NoMoveBeforeTwoSeated ==
    [][ MoveAccepted => Len(players) = 2 ]_vars

====
